---- MODULE Spec2Model ----
(***************************************************************************)
(* ZIMM (zero-inflated mixture model), src/ZIMM.py.                        *)
(*                                                                         *)
(* The module models fitModel as a sequential state machine (one action    *)
(* per group of statements, pc is the position in the function), the       *)
(* validation and NaN/Inf checks of Estep / computeIntegrals / checkNoNans *)
(* and, in a second specification, the arithmetic of the responsibility    *)
(* scorer computePosteriorLogZProbability over IEEE-like extended values.  *)
(*                                                                         *)
(* Floating point values are modelled as extended integers: a finite value *)
(* <<"fin", v>>, NaN, +Inf and -Inf.  The closed-form float arithmetic of  *)
(* computeIntegrals, Mstep, the external optimiser and the external        *)
(* initialiser is a fixed but unknown function of its inputs: the model    *)
(* draws its value the first time an input is seen and records it (eO, mO, *)
(* initO), so that the same input always yields the same output.           *)
(***************************************************************************)
EXTENDS Integers, Sequences, FiniteSets, TLC

VARIABLES
  pc,              \* position in fitModel
  rng,             \* state of numpy's global pseudorandom generator
  max_iter,        \* argument max_iter
  ll_delta_thresh, \* argument ll_delta_thresh
  verbose,         \* argument verbose
  params,          \* cluster_mus, cluster_sigmas, cluster_weights, decay_coef
  n_iter,          \* local n_iter
  lls,             \* local lls, the likelihood trace
  W, ll, E1, EX, EX2, \* the locals assigned from Estep's return value
  zhat,            \* local zhat
  out,             \* what has been printed
  ret,             \* <<>> or <<the returned (zhat, params)>>
  err,             \* "" or the exception that left fitModel
  initO, eO, mO,   \* the recorded values of the float functions
  nE,              \* number of Estep calls of this fitModel call that returned
  sinceM,          \* number of Estep calls that returned since the last Mstep
  iters,           \* number of loop bodies entered
  scoredWith,      \* <<>> or <<params last passed to the scorer>>
  rng0,            \* <<>>, or <<state of the generator at the second call>>
  prev,            \* <<>> or <<outcome of the previous fitModel call>>
  scIn, scW, scDone \* the scorer's input, output, and whether it has run

fitVars == <<pc, rng, max_iter, ll_delta_thresh, verbose, params, n_iter, lls,
             W, ll, E1, EX, EX2, zhat, out, ret, err, initO, eO, mO,
             nE, sinceM, iters, scoredWith, rng0, prev>>
scVars == <<scIn, scW, scDone>>
vars == <<fitVars, scVars>>

----------------------------------------------------------------------------
(* Bounds of the model *)
MaxIter == 2
MaxLL == 1
RngMod == 24

(* np.random.seed(23) *)
Seed == 23

----------------------------------------------------------------------------
(* Extended values *)
Fin(v) == <<"fin", v>>
NaN == <<"nan", 0>>
PosInf == <<"inf", 1>>
NegInf == <<"inf", -1>>
Unset == <<"unset", 0>>

IsFin(x) == x[1] = "fin"
isnan(x) == x[1] = "nan"
isinf(x) == x[1] = "inf"

\* a < b on floats: false when either side is NaN
Lt(a, b) ==
  IF isnan(a) \/ isnan(b) THEN FALSE
  ELSE IF isinf(a) THEN a[2] < 0 /\ ~(isinf(b) /\ b[2] < 0)
  ELSE IF isinf(b) THEN b[2] > 0
  ELSE a[2] < b[2]

\* np.abs(a - b)
AbsDiff(a, b) ==
  IF isnan(a) \/ isnan(b) THEN NaN
  ELSE IF isinf(a) /\ isinf(b) THEN (IF a[2] = b[2] THEN NaN ELSE PosInf)
  ELSE IF isinf(a) \/ isinf(b) THEN PosInf
  ELSE Fin(IF a[2] >= b[2] THEN a[2] - b[2] ELSE b[2] - a[2])

\* x > 0 on floats
GtZero(x) == Lt(Fin(0), x)

Range(s) == {s[i] : i \in DOMAIN s}

----------------------------------------------------------------------------
(* Parameters and the values of the float functions *)

\* the four values initalizeParams and Mstep return; a matrix is the sequence
\* of its entries
ParamRecord(mu, sigmas, w, d) ==
  [cluster_mus |-> mu, cluster_sigmas |-> sigmas,
   cluster_weights |-> w, decay_coef |-> d]

UnsetParams == ParamRecord(<<>>, <<>>, <<>>, Unset)

BaseParams == ParamRecord(<<Fin(0)>>, <<Fin(1), Fin(2)>>, <<Fin(1)>>, Fin(1))

\* parameters with every sigma > 0, decay_coef > 0 and every entry finite
GoodParams == {[BaseParams EXCEPT !.cluster_mus = <<Fin(m)>>] : m \in {0, 1}}

\* parameters with a sigma or decay_coef that is not positive, or a NaN/Inf
BadParams ==
  {[BaseParams EXCEPT !.cluster_sigmas = s] :
      s \in {<<Fin(1), Fin(0)>>, <<Fin(-1), Fin(2)>>, <<NaN, Fin(2)>>}}
  \cup {[BaseParams EXCEPT !.decay_coef = d] : d \in {Fin(0), NaN}}
  \cup {[BaseParams EXCEPT !.cluster_mus = <<NaN>>],
        [BaseParams EXCEPT !.cluster_weights = <<PosInf>>]}

AllParams == GoodParams \cup BadParams

\* normalised responsibilities of two samples over two clusters, in halves
WChoices == {<< <<Fin(2), Fin(0)>>, <<Fin(1), Fin(1)>> >>,
             << <<Fin(0), Fin(2)>>, <<Fin(0), Fin(2)>> >>}

FiniteW == << <<Fin(0), Fin(-1)>>, <<Fin(-1), Fin(0)>> >>

\* what the float arithmetic of one Estep call can yield: E1, EX, EX2 of
\* computeIntegrals, the scorer's matrix Wraw, the log likelihood of
\* computeLLFromW (finite, or +-Inf by overflow: with a finite Wraw no NaN
\* can arise in lines 74-77) and the normalised W
GoodENumerics ==
  {[E1 |-> <<Fin(1)>>, EX |-> <<Fin(1)>>, EX2 |-> <<Fin(1)>>, Wraw |-> FiniteW,
    ll |-> Fin(l), W |-> w] : l \in 0..MaxLL, w \in WChoices}

BaseENumerics == CHOOSE r \in GoodENumerics : r.ll = Fin(0)

BadENumerics ==
  {[BaseENumerics EXCEPT !.E1 = <<NaN>>],
   [BaseENumerics EXCEPT !.EX2 = <<PosInf>>],
   [BaseENumerics EXCEPT !.Wraw = << <<NaN, Fin(0)>>, <<Fin(0), Fin(0)>> >>],
   [BaseENumerics EXCEPT !.ll = NegInf],
   [BaseENumerics EXCEPT !.W = << <<NaN, NaN>>, <<Fin(1), Fin(1)>> >>]}

ENumerics == GoodENumerics \cup BadENumerics

\* f extended by k |-> v
Recorded(f, k, v) == [x \in DOMAIN f \cup {k} |-> IF x = k THEN v ELSE f[x]]

\* the values a float function recorded in f can take at k
Values(f, k, all) == IF k \in DOMAIN f THEN {f[k]} ELSE all

----------------------------------------------------------------------------
(* checkNoNans, computeIntegrals, Estep *)

RECURSIVE Flatten(_)
Flatten(M) == IF M = <<>> THEN <<>> ELSE Head(M) \o Flatten(Tail(M))

\* TRUE when checkNoNans(matrix_list) returns, FALSE when it raises
checkNoNans(matrix_list) ==
  \A i \in DOMAIN matrix_list :
     \A x \in Range(matrix_list[i]) : ~isnan(x) /\ ~isinf(x)

\* lines 27-30 with "sigma >= 0" in place of "sigma > 0"
computeIntegrals_NonNegative(sigma, decay_coef) ==
  IF ~(\A s \in Range(sigma) : ~Lt(s, Fin(0)) /\ ~isnan(s)) THEN "SigmaException"
  ELSE IF ~GtZero(decay_coef) THEN "AssertionError"
  ELSE ""

\* lines 27-30: the exception computeIntegrals raises before its arithmetic
\* (sigma > 0 fails for a NaN too), or ""
computeIntegrals(sigma, decay_coef) ==
  IF ~(\A s \in Range(sigma) : GtZero(s)) THEN "SigmaException"
  ELSE IF ~GtZero(decay_coef) THEN "AssertionError"
  ELSE ""

\* Estep on parameters p, r being the values its float arithmetic yields:
\* the exception raised (or ""), whether computeIntegrals did its arithmetic,
\* whether the scorer was called, and the values returned
Estep(p, r) ==
  LET res(exc, integrated, scored) ==
        [exc |-> exc, integrated |-> integrated, scored |-> scored,
         W |-> r.W, ll |-> r.ll, E1 |-> r.E1, EX |-> r.EX, EX2 |-> r.EX2]
      v == computeIntegrals(p.cluster_sigmas, p.decay_coef)
  IN  IF v # "" THEN res(v, FALSE, FALSE)
      ELSE IF ~checkNoNans(<<r.E1, r.EX, r.EX2>>) THEN res("NaNOrInf", TRUE, FALSE)
      ELSE IF ~checkNoNans(<<Flatten(r.Wraw)>>) THEN res("NaNOrInf", TRUE, TRUE)
      ELSE IF isinf(r.ll) THEN res("AssertionError", TRUE, TRUE)
      ELSE IF ~checkNoNans(<<Flatten(r.W)>>) THEN res("NaNOrInf", TRUE, TRUE)
      ELSE res("", TRUE, TRUE)

\* np.argmax of one row: the first index (from 0) of a largest entry
argmax(row) ==
  CHOOSE i \in 0..(Len(row) - 1) :
     /\ \A j \in 0..(Len(row) - 1) : ~Lt(row[i + 1], row[j + 1])
     /\ \A j \in 0..(i - 1) : Lt(row[j + 1], row[i + 1])

\* the loop "for i in range(len(W)): zhat.append(np.argmax(W[i, :]))"
Decoded(w) == [i \in DOMAIN w |-> argmax(w[i])]

----------------------------------------------------------------------------
(* fitModel *)

args == <<max_iter, ll_delta_thresh, verbose>>
estepOut == <<W, ll, E1, EX, EX2>>
ghosts == <<nE, sinceM, iters, scoredWith, rng0, prev>>

\* the generator after the draws of initalizeParams
NextRng(r) == (5 * r + 3) % RngMod

EntryRngs == {0, Seed, RngMod - 2}
Thresholds == {Fin(0), Fin(1), Fin(2)}

FitLocalsInit ==
  /\ params = UnsetParams /\ n_iter = 0 /\ lls = <<>>
  /\ W = <<>> /\ ll = Unset /\ E1 = <<>> /\ EX = <<>> /\ EX2 = <<>>
  /\ zhat = <<>> /\ out = <<>> /\ ret = <<>> /\ err = ""
  /\ nE = 0 /\ sinceM = 0 /\ iters = 0 /\ scoredWith = <<>>

ScorerIdle == scIn = <<>> /\ scW = Unset /\ scDone = FALSE

\* fitModel is called
Init ==
  /\ pc = "start"
  /\ rng \in EntryRngs /\ rng0 = <<>>
  /\ max_iter \in 0..MaxIter
  /\ ll_delta_thresh \in Thresholds
  /\ verbose \in BOOLEAN
  /\ FitLocalsInit
  /\ initO = <<>> /\ eO = <<>> /\ mO = <<>>
  /\ prev = <<>>
  /\ ScorerIdle

\* lines 257-259 without the call of np.random.seed
Seeding_NoReseed ==
  /\ pc = "start"
  /\ out' = Append(out, "Running")
  /\ pc' = "init"
  /\ UNCHANGED <<rng, args, params, n_iter, lls, estepOut, zhat, ret, err,
                 initO, eO, mO, ghosts, scVars>>

\* lines 257-259: the banner and np.random.seed(23)
Seeding ==
  /\ pc = "start"
  /\ out' = Append(out, "Running")
  /\ rng' = Seed
  /\ pc' = "init"
  /\ UNCHANGED <<args, params, n_iter, lls, estepOut, zhat, ret, err,
                 initO, eO, mO, ghosts, scVars>>

\* lines 260-264: initalizeParams (its result a function of the generator's
\* state), its assert on the sigmas, checkNoNans, and the locals
Initialize ==
  /\ pc = "init"
  /\ \E p \in Values(initO, rng, AllParams) :
       /\ initO' = Recorded(initO, rng, p)
       /\ rng' = NextRng(rng)
       /\ out' = Append(out, "DecayCoef")
       /\ IF ~(\A s \in Range(p.cluster_sigmas) : GtZero(s))
          THEN /\ pc' = "raised" /\ err' = "AssertionError"
               /\ UNCHANGED <<params, n_iter, lls>>
          ELSE /\ params' = p
               /\ IF ~checkNoNans(<<p.cluster_mus, p.cluster_sigmas,
                                    p.cluster_weights, <<p.decay_coef>> >>)
                  THEN /\ pc' = "raised" /\ err' = "NaNOrInf"
                       /\ UNCHANGED <<n_iter, lls>>
                  ELSE /\ n_iter' = 0 /\ lls' = <<>>
                       /\ pc' = "looptest" /\ err' = err
  /\ UNCHANGED <<args, estepOut, zhat, ret, eO, mO, ghosts, scVars>>

\* line 265 with "<=" in place of "<"
LoopCondition_Inclusive(n, cap) == n <= cap

\* line 265: the loop condition
LoopCondition(n, cap) == n < cap

\* line 265: while n_iter < max_iter
LoopTest ==
  /\ pc = "looptest"
  /\ IF LoopCondition(n_iter, max_iter)
     THEN pc' = "estep" /\ iters' = iters + 1
     ELSE pc' = "final" /\ iters' = iters
  /\ UNCHANGED <<rng, args, params, n_iter, lls, estepOut, zhat, out, ret, err,
                 initO, eO, mO, nE, sinceM, scoredWith, rng0, prev, scVars>>

\* line 267 with "lls = [ll]" in place of the append
AppendTrace_Overwrite(trace, x) == <<x>>

\* line 267: lls.append(ll)
AppendTrace(trace, x) == Append(trace, x)

\* lines 266-267: Estep and lls.append(ll)
EstepLoop ==
  /\ pc = "estep"
  /\ \E r \in Values(eO, params, ENumerics) :
       LET e == Estep(params, r) IN
       /\ eO' = IF e.integrated THEN Recorded(eO, params, r) ELSE eO
       /\ scoredWith' = IF e.scored THEN <<params>> ELSE scoredWith
       /\ IF e.exc # ""
          THEN /\ pc' = "raised" /\ err' = e.exc
               /\ UNCHANGED <<estepOut, lls, nE, sinceM>>
          ELSE /\ W' = e.W /\ ll' = e.ll /\ E1' = e.E1 /\ EX' = e.EX /\ EX2' = e.EX2
               /\ lls' = AppendTrace(lls, e.ll)
               /\ nE' = nE + 1 /\ sinceM' = sinceM + 1
               /\ pc' = "mstep" /\ err' = err
  /\ UNCHANGED <<rng, args, params, n_iter, zhat, out, ret, initO, mO,
                 iters, rng0, prev, scVars>>

\* line 269 left out
CheckAfterMstep_Skipped(w, ex, ex2, q) == TRUE

\* line 269: checkNoNans on W, EX, EX2 and the new parameters
CheckAfterMstep(w, ex, ex2, q) ==
  checkNoNans(<<Flatten(w), ex, ex2, q.cluster_mus, q.cluster_sigmas,
                q.cluster_weights, <<q.decay_coef>> >>)

\* lines 268-269: Mstep (its result a function of the parameters, W, EX and
\* EX2 being functions of them) and checkNoNans
MstepLoop ==
  /\ pc = "mstep"
  /\ \E q \in Values(mO, params, AllParams) :
       /\ mO' = Recorded(mO, params, q)
       /\ params' = q
       /\ sinceM' = 0
       /\ IF CheckAfterMstep(W, EX, EX2, q)
          THEN pc' = "tail" /\ err' = err
          ELSE pc' = "raised" /\ err' = "NaNOrInf"
  /\ UNCHANGED <<rng, args, n_iter, lls, estepOut, zhat, out, ret, initO, eO,
                 nE, iters, scoredWith, rng0, prev, scVars>>

\* line 277 with a tolerance: lls[-1] + 1 < lls[-2]
Decreased_Tolerant(cur, before) ==
  IsFin(cur) /\ IsFin(before) /\ cur[2] + 1 < before[2]

\* line 277: lls[-1] < lls[-2]
Decreased(cur, before) == Lt(cur, before)

\* line 279 with "<=" in place of "<"
SmallChange_Inclusive(cur, before, thresh) == ~Lt(thresh, AbsDiff(cur, before))

\* line 279: np.abs(lls[-1] - lls[-2]) < ll_delta_thresh
SmallChange(cur, before, thresh) == Lt(AbsDiff(cur, before), thresh)

\* lines 270-287, the rest of the loop body: the hard assignments of this
\* iteration and the progress line; the monotonicity check, which raises; the
\* convergence check, which leaves the loop; the cap check; n_iter += 1
LoopTail ==
  /\ pc = "tail"
  /\ zhat' = Decoded(W)
  /\ LET printed == IF verbose THEN Append(out, "Iteration") ELSE out IN
     IF Len(lls) >= 2 /\ Decreased(lls[Len(lls)], lls[Len(lls) - 1])
     THEN /\ pc' = "raised" /\ err' = "LikelihoodNotIncreasing"
          /\ out' = printed /\ n_iter' = n_iter
     ELSE IF Len(lls) >= 2
             /\ SmallChange(lls[Len(lls)], lls[Len(lls) - 1], ll_delta_thresh)
     THEN /\ out' = IF verbose THEN Append(printed, "TooSmall") ELSE printed
          /\ pc' = "final" /\ err' = err /\ n_iter' = n_iter
     ELSE IF n_iter >= max_iter
     THEN /\ out' = IF verbose THEN Append(printed, "MaxIterReached") ELSE printed
          /\ pc' = "final" /\ err' = err /\ n_iter' = n_iter
     ELSE /\ n_iter' = n_iter + 1
          /\ pc' = "looptest" /\ err' = err /\ out' = printed
  /\ UNCHANGED <<rng, args, params, lls, estepOut, ret,
                 initO, eO, mO, ghosts, scVars>>

\* line 288 left out: the values of the loop's last Estep are decoded
FinalEstep_Skipped ==
  /\ pc = "final"
  /\ pc' = "return"
  /\ UNCHANGED <<rng, args, params, n_iter, lls, estepOut, zhat, out, ret, err,
                 initO, eO, mO, ghosts, scVars>>

\* line 288: the Estep after the loop; its ll is not appended
FinalEstep ==
  /\ pc = "final"
  /\ \E r \in Values(eO, params, ENumerics) :
       LET e == Estep(params, r) IN
       /\ eO' = IF e.integrated THEN Recorded(eO, params, r) ELSE eO
       /\ scoredWith' = IF e.scored THEN <<params>> ELSE scoredWith
       /\ IF e.exc # ""
          THEN /\ pc' = "raised" /\ err' = e.exc
               /\ UNCHANGED <<estepOut, nE, sinceM>>
          ELSE /\ W' = e.W /\ ll' = e.ll /\ E1' = e.E1 /\ EX' = e.EX /\ EX2' = e.EX2
               /\ nE' = nE + 1 /\ sinceM' = sinceM + 1
               /\ pc' = "return" /\ err' = err
  /\ UNCHANGED <<rng, args, params, n_iter, lls, zhat, out, ret, initO, mO,
                 iters, rng0, prev, scVars>>

\* lines 289-293: the hard assignments and the parameter record
Return ==
  /\ pc = "return"
  /\ zhat' = Decoded(W)
  /\ ret' = << [zhat |-> zhat',
                cluster_mus |-> params.cluster_mus,
                cluster_sigmas |-> params.cluster_sigmas,
                cluster_weights |-> params.cluster_weights,
                decay_coef |-> params.decay_coef,
                lls |-> lls] >>
  /\ pc' = "done"
  /\ UNCHANGED <<rng, args, params, n_iter, lls, estepOut, out, err,
                 initO, eO, mO, ghosts, scVars>>

Next ==
  \/ Seeding \/ Initialize \/ LoopTest \/ EstepLoop \/ MstepLoop \/ LoopTail
  \/ FinalEstep \/ Return

Spec == Init /\ [][Next]_vars

\* a fitModel call has ended
Ended == pc \in {"done", "raised"}

\* what a fitModel call hands to its caller
Outcome == [status |-> pc, ret |-> ret, err |-> err]

\* fitModel is called a second time with the same Y, K, max_iter and
\* ll_delta_thresh, the generator being in any state
Recall ==
  /\ Ended /\ prev = <<>>
  /\ prev' = <<Outcome>>
  /\ pc' = "start"
  /\ rng' \in EntryRngs /\ rng0' = <<rng'>>
  /\ verbose' \in BOOLEAN
  /\ params' = UnsetParams /\ n_iter' = 0 /\ lls' = <<>>
  /\ W' = <<>> /\ ll' = Unset /\ E1' = <<>> /\ EX' = <<>> /\ EX2' = <<>>
  /\ zhat' = <<>> /\ out' = <<>> /\ ret' = <<>> /\ err' = ""
  /\ nE' = 0 /\ sinceM' = 0 /\ iters' = 0 /\ scoredWith' = <<>>
  /\ UNCHANGED <<max_iter, ll_delta_thresh, initO, eO, mO, scVars>>

NextTwoCalls == Next \/ Recall

SpecTwoCalls == Init /\ [][NextTwoCalls]_vars

\* fitModel is sequential code: a statement that can run does run
FairSpec == Spec /\ WF_vars(Next)

----------------------------------------------------------------------------
(* computePosteriorLogZProbability on one sample and one cluster, over two  *)
(* dimensions.  Its input is given by the elementwise float values the     *)
(* code forms from Y, the parameters and E1.                               *)

FloatMaxPos == <<"max", 1>>
FloatMaxNeg == <<"max", -1>>

\* np.nan_to_num: NaN to 0, +-Inf to the largest finite float of that sign
nan_to_num(x) ==
  IF isnan(x) THEN Fin(0)
  ELSE IF isinf(x) THEN (IF x[2] > 0 THEN FloatMaxPos ELSE FloatMaxNeg)
  ELSE x

\* float addition; the largest finite float absorbs an ordinary value and
\* overflows when added to itself
fadd(a, b) ==
  IF isnan(a) \/ isnan(b) THEN NaN
  ELSE IF isinf(a) /\ isinf(b) THEN (IF a[2] = b[2] THEN a ELSE NaN)
  ELSE IF isinf(a) THEN a
  ELSE IF isinf(b) THEN b
  ELSE IF a[1] = "max" /\ b[1] = "max"
       THEN (IF a[2] = b[2] THEN <<"inf", a[2]>> ELSE Fin(0))
  ELSE IF a[1] = "max" THEN a
  ELSE IF b[1] = "max" THEN b
  ELSE Fin(a[2] + b[2])

\* the product of a boolean (as 0.0 or 1.0) and a float: 0 * Inf is NaN
fmask(b, x) ==
  IF b THEN x
  ELSE IF isnan(x) \/ isinf(x) THEN NaN
  ELSE Fin(0)

fneg(x) == IF isnan(x) THEN x ELSE <<x[1], 0 - x[2]>>

RECURSIVE fsum(_)
fsum(s) == IF s = <<>> THEN Fin(0)
           ELSE fadd(fsum(SubSeq(s, 1, Len(s) - 1)), s[Len(s)])

Dims == 1..2

\* per dimension: Y_is_zero, np.log(E1), np.log(1 - np.exp(-decay_coef * Y**2)),
\* np.log(1 / np.sqrt(2 * pi * sigma**2)) and (Y - mu)**2 / (2 * sigma**2);
\* np.log(cluster_weights) for the cluster
ScorerInputs ==
  [Y_is_zero : [Dims -> BOOLEAN],
   logE1 : [Dims -> {NegInf, Fin(-1), Fin(0)}],
   logDecay : [Dims -> {NegInf, Fin(-2)}],
   logNorm : [Dims -> {Fin(-1), Fin(1)}],
   quad : [Dims -> {Fin(0), Fin(2)}],
   logWeight : {Fin(-1)}]

\* lines 52-63, the entry of W for the sample and the cluster
computePosteriorLogZProbability(in) ==
  LET Y_is_zero == in.Y_is_zero
      zero_ps == nan_to_num(fsum([d \in Dims |-> fmask(Y_is_zero[d], in.logE1[d])]))
      cluster_weights_matrix == in.logWeight
      decay_matrix ==
        fsum([d \in Dims |-> nan_to_num(fmask(~Y_is_zero[d], in.logDecay[d]))])
      normalization_matrix ==
        fsum([d \in Dims |-> fmask(~Y_is_zero[d], in.logNorm[d])])
      probs == fneg(fsum([d \in Dims |-> fmask(~Y_is_zero[d], in.quad[d])]))
  IN  fadd(fadd(fadd(fadd(cluster_weights_matrix, zero_ps),
                     normalization_matrix), decay_matrix), probs)

FitOff ==
  /\ pc = "off" /\ rng = 0 /\ rng0 = <<>>
  /\ max_iter = 0 /\ ll_delta_thresh = Fin(0) /\ verbose = FALSE
  /\ FitLocalsInit
  /\ initO = <<>> /\ eO = <<>> /\ mO = <<>> /\ prev = <<>>

InitScorer ==
  /\ FitOff
  /\ scIn \in ScorerInputs /\ scW = Unset /\ scDone = FALSE

\* the scorer is applied to its input
Score ==
  /\ pc = "off" /\ ~scDone
  /\ scW' = computePosteriorLogZProbability(scIn)
  /\ scDone' = TRUE
  /\ UNCHANGED <<fitVars, scIn>>

SpecScorer == InitScorer /\ [][Score]_vars

----------------------------------------------------------------------------
(* Properties *)

\* the last two entries of the trace: the latest is lower than the one before
Dropped ==
  Len(lls) >= 2 /\ Lt(lls[Len(lls)], lls[Len(lls) - 1])

\* the last two entries of the trace differ by less than the threshold, the
\* latest not being the lower one
ConvergenceHolds ==
  /\ Len(lls) >= 2
  /\ Lt(AbsDiff(lls[Len(lls)], lls[Len(lls) - 1]), ll_delta_thresh)
  /\ ~Lt(lls[Len(lls)], lls[Len(lls) - 1])

AllFinite(s) == \A x \in Range(s) : IsFin(x)

FiniteParams(p) ==
  /\ AllFinite(p.cluster_mus) /\ AllFinite(p.cluster_sigmas)
  /\ AllFinite(p.cluster_weights) /\ IsFin(p.decay_coef)

PositiveScale(p) ==
  /\ \A i \in DOMAIN p.cluster_sigmas :
        IsFin(p.cluster_sigmas[i]) /\ p.cluster_sigmas[i][2] > 0
  /\ IsFin(p.decay_coef) /\ p.decay_coef[2] > 0

\* the four parameters of a returned record
ReturnedParams(r) ==
  ParamRecord(r.cluster_mus, r.cluster_sigmas, r.cluster_weights, r.decay_coef)

\* C1: the likelihood trace never decreases: once an E-step of the loop has
\* yielded a log likelihood lower than the previous entry (by however little),
\* fitModel is in that iteration's M-step or checks, or has raised; it never
\* reaches the next iteration, the final E-step or the return.
\* Every returned trace satisfies lls[i] <= lls[i+1].
C1_TraceNonDecreasing ==
  /\ Dropped => pc \in {"mstep", "tail", "raised"}
  /\ pc = "done" =>
       \A i \in 1..(Len(ret[1].lls) - 1) :
          /\ IsFin(ret[1].lls[i]) /\ IsFin(ret[1].lls[i + 1])
          /\ ret[1].lls[i][2] <= ret[1].lls[i + 1][2]

\* C1 witness: fitModel raised on a drop smaller than ll_delta_thresh
C1_Witness ==
  /\ pc = "raised" /\ err = "LikelihoodNotIncreasing"
  /\ Dropped
  /\ Lt(AbsDiff(lls[Len(lls)], lls[Len(lls) - 1]), ll_delta_thresh)

\* C2: the check of an iteration leaves the loop for convergence exactly when
\* the trace has at least two entries whose last two differ by less than
\* ll_delta_thresh (the latest not lower); and no iteration of the loop is
\* entered with a trace for which that holds.
C2_ConvergenceExit ==
  [][ /\ pc = "tail" => ((pc' = "final") <=> ConvergenceHolds)
      /\ pc' = "estep" => ~ConvergenceHolds' ]_vars

\* C2 witness: the loop was left for convergence before the cap
C2_Witness ==
  pc = "final" /\ ConvergenceHolds /\ n_iter < max_iter

\* C3 (state part): at most max_iter loop bodies are entered; a call that
\* returns without convergence has entered exactly max_iter and returns a
\* trace of that length; with max_iter = 0 the trace is empty and the
\* parameters are the initialiser's.
C3_IterationBound ==
  /\ iters <= max_iter
  /\ pc = "done" /\ ~ConvergenceHolds =>
       iters = max_iter /\ Len(ret[1].lls) = max_iter
  /\ pc = "done" /\ max_iter = 0 =>
       ret[1].lls = <<>> /\ ReturnedParams(ret[1]) = initO[Seed]

\* C3: fitModel terminates for every max_iter >= 0, having run at most
\* max_iter iterations (exactly max_iter when it neither converges nor raises).
C3_Terminates == []C3_IterationBound /\ <>Ended

\* C3 witness: a call with the largest cap returned without convergence
C3_Witness ==
  pc = "done" /\ ~ConvergenceHolds /\ max_iter = MaxIter /\ iters = MaxIter
  /\ Len(ret[1].lls) = MaxIter

\* C4: a verbose call that returns at the cap without convergence has printed
\* the 'Maximum number of iterations reached' notice.
C4_CapNotice ==
  (pc = "done" /\ verbose /\ max_iter >= 1 /\ iters = max_iter /\ ~ConvergenceHolds)
     => \E i \in DOMAIN out : out[i] = "MaxIterReached"

\* C5: when fitModel returns, exactly one E-step has run since the last
\* M-step, it scored the returned parameters, and the returned assignments
\* are the per-row argmax of the W that E-step yields for those parameters.
C5_FinalAssignments ==
  pc = "done" =>
     /\ sinceM = 1
     /\ scoredWith = <<ReturnedParams(ret[1])>>
     /\ ReturnedParams(ret[1]) \in DOMAIN eO
     /\ ret[1].zhat = Decoded(eO[ReturnedParams(ret[1])].W)

\* C5 witness: a call returned parameters that an M-step produced and that
\* differ from the ones the loop's last E-step scored
C5_Witness ==
  /\ pc = "done" /\ iters >= 1
  /\ ReturnedParams(ret[1]) # initO[Seed]
  /\ Cardinality(DOMAIN eO) >= 2

\* C6: every returned parameter record has all sigmas > 0 and decay_coef > 0,
\* and the scorer is never called with a sigma <= 0 or decay_coef <= 0.
C6_PositiveScale ==
  /\ pc = "done" => PositiveScale(ReturnedParams(ret[1]))
  /\ scoredWith # <<>> => PositiveScale(scoredWith[1])

\* C6 witness: the loop converged, its last M-step gave a sigma that is not
\* positive, and the final E-step raised
C6_Witness ==
  /\ pc = "raised" /\ err = "SigmaException"
  /\ ConvergenceHolds /\ sinceM = 0
  /\ ~PositiveScale(params)

\* C7: a second call with the same Y, K, max_iter and ll_delta_thresh ends
\* as the first did (same assignments, parameters and trace, or the same
\* error), whatever the state of the generator at either call.
C7_Deterministic ==
  (Ended /\ prev # <<>>) => Outcome = prev[1]

\* C7 witness: the second call was made with the generator in a state that
\* is neither the seeded one nor the one the first call left, and returned
C7_Witness ==
  /\ pc = "done" /\ prev # <<>> /\ iters >= 1
  /\ rng0 # <<Seed>> /\ rng0 # <<NextRng(Seed)>>

\* C8 as stated: at return the length of lls is the number of E-steps run
C8_OneEntryPerEstep ==
  pc = "done" => Len(ret[1].lls) = nE

\* the trace holds one entry per E-step of the loop; the E-step after the
\* loop adds none
C8_LoopEstepCount ==
  /\ Len(lls) = (IF pc \in {"return", "done"} THEN nE - 1 ELSE nE)
  /\ pc = "done" => ret[1].lls = lls /\ Len(ret[1].lls) = nE - 1

\* C8 (amended): the trace is append-only and holds exactly one entry per
\* completed E-step of the loop, in execution order; the E-step after the loop
\* appends nothing, so at return the length of lls is the number of E-steps
\* run minus one.
C8_TraceOfLoopEsteps ==
  /\ []C8_LoopEstepCount
  /\ [][ \/ lls' = lls
         \/ pc = "estep" /\ pc' = "mstep" /\ lls' = Append(lls, ll') ]_vars

\* C8 witness: a call returned after two loop E-steps and the final one
C8_Witness ==
  pc = "done" /\ nE = 3 /\ Len(ret[1].lls) = 2

Zeroed(x) == IF isnan(x) \/ isinf(x) THEN Fin(0) ELSE x

\* the sum C10 describes: log weight, log E1 for a zero entry, and the decay,
\* normalisation and Gaussian terms for an observed entry
IntendedScore(in) ==
  in.logWeight[2]
  + (IF in.Y_is_zero[1] THEN Zeroed(in.logE1[1])[2]
     ELSE Zeroed(in.logDecay[1])[2] + in.logNorm[1][2] - in.quad[1][2])
  + (IF in.Y_is_zero[2] THEN Zeroed(in.logE1[2])[2]
     ELSE Zeroed(in.logDecay[2])[2] + in.logNorm[2][2] - in.quad[2][2])

\* C10: in the scorer every term that is not finite (log E1 of a zero mass, a
\* degenerate decay term) contributes exactly 0 while the finite terms of the
\* same sum are kept, so the output is finite.
C10_NonFiniteTermsAreZero ==
  scDone => scW = Fin(IntendedScore(scIn))

====
